---- MODULE Spec2Model ----
(***************************************************************************)
(* Model of the SharkTalent backend (src/backend): the Project and         *)
(* Proposal tables, and the request handlers of routes.py that read and    *)
(* write them.  Each handler runs in a request slot; a handler is split    *)
(* at the places where it talks to the database, so that two requests can  *)
(* interleave between a read and the write that depends on it.             *)
(*                                                                         *)
(* The store is the SQLite database of models.py: one writing transaction  *)
(* at a time, whose writes stay in its own working copy (txn) until        *)
(* db.session.commit(); a request that ends without commit is rolled back. *)
(*                                                                         *)
(* The User table is written by register and update_profile of auth.py;    *)
(* routes.py reads only a user's id and role, which never change.          *)
(*                                                                         *)
(* The handlers are explored in several worlds, each its own               *)
(* specification: Spec (one request at a time, every user), SpecRace (two  *)
(* requests at a time), SpecRead (Spec with the reading handlers),         *)
(* SpecPair (two Projects), SpecSmall (every handler of routes.py and      *)
(* auth.py, one request at a time) and SpecAccountRace (two requests at a  *)
(* time of register and update_profile).                                   *)
(***************************************************************************)
EXTENDS Integers, FiniteSets, TLC

\* ------------------------------------------------------------------ bounds
\* Ids in use: Project ids 1 .. MaxProjects, Proposal ids 1 .. MaxProposals.
MaxProjects == 2
MaxProposals == 4
\* Projects alive at once in the runs of Spec and of SpecRace.
SeqProjects == 1
RaceProjects == 1
\* Projects and Proposals alive at once in the runs of SpecPair.
PairProjects == 2
PairProposals == 3
\* get_my_proposals is asked for pages 0 .. MaxPage of 1 .. MaxPerPage rows.
MaxPage == 2
MaxPerPage == 2

\* --------------------------------------------------------------- constants
\* routes.py:241  existing_proposals >= 3
ProposalLimit == 3

\* The registered users (models.py User rows; role is never updated).
Users == {"c1", "c2", "f1", "f2", "a1"}
role == [u \in Users |->
           IF u \in {"c1", "c2"} THEN "client"
           ELSE IF u \in {"f1", "f2"} THEN "freelancer" ELSE "admin"]

Clients == {u \in Users : role[u] = "client"}
Freelancers == {u \in Users : role[u] = "freelancer"}

\* Ids of the User rows that register adds, in the order it adds them.
NewUsers == {"n1", "n2"}
NewUserOrder == [u \in NewUsers |-> IF u = "n1" THEN 1 ELSE 2]

\* E-mail addresses: the one each registered user signed up with (named after
\* the user) and one that nobody has used yet.
Emails == Users \cup {"new"}
Names == {"A", "B"}
\* Values a caller may send as a role to register.
RoleInputs == {"client", "freelancer", "admin", "manager"}

\* Request slots (concurrent requests of the threaded server).
Reqs == {1, 2}

ProjectIds == 1 .. MaxProjects
ProposalIds == 1 .. MaxProposals

\* Values a caller may send as a status (the handlers take any string).
ProjectStatusInputs == {"open", "in_progress", "completed", "archived"}
ProposalStatusInputs == {"accepted", "rejected", "pending"}
NoField == "-"

VARIABLES
  projects,   \* committed Project rows:  id -> [status, client_id, budget]
  proposals,  \* committed Proposal rows: id -> [status, freelancer_id, project_id]
  txn,        \* the open writing transaction: [owner, proposals]
  pc,         \* slot -> place of its handler
  req,        \* slot -> what its handler holds in local variables
  resp,       \* the response sent by the latest step, if any: [op, msg]
  users,      \* committed User rows: id -> [email, first_name, last_name, role]
  sent        \* the ids of the Proposals whose data that response carries

vars == <<projects, proposals, txn, pc, req, resp, users, sent>>

EmptyTable == [x \in {} |-> 0]
NoReq == [op |-> "-", caller |-> "-", pid |-> 0, prj |-> 0, st |-> "-"]
NoResp == [op |-> "-", msg |-> "-"]
NoTxn == [owner |-> 0, proposals |-> EmptyTable]

\* ----------------------------------------------------------------- helpers
SetMax(S) == CHOOSE x \in S : \A y \in S : y <= x

\* The primary key SQLite gives a new row: max(rowid) + 1.
NextId(table) == IF DOMAIN table = {} THEN 1 ELSE SetMax(DOMAIN table) + 1

Insert(table, id, row) == (id :> row) @@ table

Remove(table, ids) == [x \in DOMAIN table \ ids |-> table[x]]

\* Proposal.query.filter_by(project_id=...)
ProposalsOf(P, prj) == {p \in DOMAIN P : P[p].project_id = prj}

\* Proposal.query.filter_by(freelancer_id=..., project_id=...).count()
existing_proposals(P, f, prj) ==
  Cardinality({p \in DOMAIN P : P[p].freelancer_id = f /\ P[p].project_id = prj})

\* No other request holds the database's write lock.
CanWrite(r) == txn.owner \in {0, r}

Init ==
  /\ projects = EmptyTable
  /\ proposals = EmptyTable
  /\ txn = NoTxn
  /\ pc = [r \in Reqs |-> "idle"]
  /\ req = [r \in Reqs |-> NoReq]
  /\ resp = NoResp
  /\ users = [u \in Users |-> [email |-> u, first_name |-> "A",
                                last_name |-> "A", role |-> role[u]]]
  /\ sent = {}

\* A handler returns: the slot is free again.
Respond(r, op, msg) ==
  /\ resp' = [op |-> op, msg |-> msg]
  /\ sent' = {}
  /\ pc' = [pc EXCEPT ![r] = "idle"]
  /\ req' = [req EXCEPT ![r] = NoReq]

\* A handler returns the data of the Proposals in rows.
RespondWith(r, op, msg, rows) ==
  /\ resp' = [op |-> op, msg |-> msg]
  /\ sent' = rows
  /\ pc' = [pc EXCEPT ![r] = "idle"]
  /\ req' = [req EXCEPT ![r] = NoReq]

\* A handler goes on to its next statement, without a response yet.
Goto(r, place, locals) ==
  /\ resp' = NoResp
  /\ sent' = {}
  /\ pc' = [pc EXCEPT ![r] = place]
  /\ req' = [req EXCEPT ![r] = locals]

\* ---------------------------------------------------------- create_project
\* create_project without role_required('client').
create_project_any_role(r, caller, valid, budget, maxId) ==
  /\ pc[r] = "idle"
  /\ UNCHANGED users
  /\ IF ~valid \/ budget = 0
       THEN /\ Respond(r, "create_project", "400 field_required")
            /\ UNCHANGED <<projects, proposals, txn>>
     ELSE /\ CanWrite(r)
          /\ NextId(projects) <= maxId
          /\ projects' = Insert(projects, NextId(projects),
                                [status |-> "open", client_id |-> caller,
                                 budget |-> budget])
          /\ Respond(r, "create_project", "201 created")
          /\ UNCHANGED <<proposals, txn>>

\* role_required('client'), required fields, INSERT and commit
\* (routes.py:82-110).  valid: title, description and skills_required are
\* sent and not empty; budget is the number sent as budget, which
\* "not data.get(field)" takes as missing when it is 0.  maxId caps the ids
\* the explored runs use.
create_project(r, caller, valid, budget, maxId) ==
  /\ pc[r] = "idle"
  /\ UNCHANGED users
  /\ IF role[caller] # "client"
       THEN /\ Respond(r, "create_project", "403 denied")
            /\ UNCHANGED <<projects, proposals, txn>>
     ELSE IF ~valid \/ budget = 0
       THEN /\ Respond(r, "create_project", "400 field_required")
            /\ UNCHANGED <<projects, proposals, txn>>
     ELSE /\ CanWrite(r)
          /\ NextId(projects) <= maxId
          /\ projects' = Insert(projects, NextId(projects),
                                [status |-> "open", client_id |-> caller,
                                 budget |-> budget])
          /\ Respond(r, "create_project", "201 created")
          /\ UNCHANGED <<proposals, txn>>

\* ---------------------------------------------------------- update_project
\* Lookup and ownership check (routes.py:120-127).  get_or_404 runs inside
\* the handler's try block, so its NotFound is caught by "except Exception"
\* and answered as a 500.
update_project(r, caller, prj, st) ==
  /\ pc[r] = "idle"
  /\ UNCHANGED users
  /\ IF prj \notin DOMAIN projects
       THEN Respond(r, "update_project", "500 error")
     ELSE IF projects[prj].client_id # caller /\ role[caller] # "admin"
       THEN Respond(r, "update_project", "403 denied")
     ELSE Goto(r, "up_commit", [op |-> "update_project", caller |-> "-", pid |-> 0, prj |-> prj, st |-> st,
                                ploaded |-> projects[prj].status])
  /\ UNCHANGED <<projects, proposals, txn>>

\* setattr for the supplied fields, then db.session.commit() (routes.py:131-139).
\* Of the updatable fields only status is modelled; st = NoField is a request
\* without a status field.  The flush emits an UPDATE only for an attribute
\* whose new value differs from the value the object was loaded with
\* (ploaded), so a request that sets the loaded status again writes nothing.
update_project_commit(r) ==
  /\ pc[r] = "up_commit"
  /\ UNCHANGED users
  /\ CanWrite(r)
  /\ UNCHANGED <<proposals, txn>>
  /\ IF req[r].st = NoField \/ req[r].st = req[r].ploaded
       THEN /\ UNCHANGED projects
            /\ Respond(r, "update_project", "200 ok")
     ELSE IF req[r].prj \notin DOMAIN projects
       THEN /\ UNCHANGED projects
            /\ Respond(r, "update_project", "500 error")
     ELSE /\ projects' = [projects EXCEPT ![req[r].prj].status = req[r].st]
          /\ Respond(r, "update_project", "200 ok")

\* ---------------------------------------------------------- delete_project
\* delete_project without the ownership check.
delete_project_any_caller(r, caller, prj) ==
  /\ pc[r] = "idle"
  /\ UNCHANGED users
  /\ IF prj \notin DOMAIN projects
       THEN Respond(r, "delete_project", "500 error")
     ELSE Goto(r, "dp_bulk", [op |-> "delete_project", caller |-> "-", pid |-> 0, prj |-> prj, st |-> NoField])
  /\ UNCHANGED <<projects, proposals, txn>>

\* Lookup and ownership check (routes.py:149-156); get_or_404 as in
\* update_project.
delete_project(r, caller, prj) ==
  /\ pc[r] = "idle"
  /\ UNCHANGED users
  /\ IF prj \notin DOMAIN projects
       THEN Respond(r, "delete_project", "500 error")
     ELSE IF projects[prj].client_id # caller /\ role[caller] # "admin"
       THEN Respond(r, "delete_project", "403 denied")
     ELSE Goto(r, "dp_bulk", [op |-> "delete_project", caller |-> "-", pid |-> 0, prj |-> prj, st |-> NoField])
  /\ UNCHANGED <<projects, proposals, txn>>

\* delete_project_proposals without the DELETE of the Proposals.
delete_project_proposals_none(r) ==
  /\ pc[r] = "dp_bulk"
  /\ UNCHANGED users
  /\ txn.owner = 0
  /\ txn' = [owner |-> r, proposals |-> proposals]
  /\ Goto(r, "dp_commit", req[r])
  /\ UNCHANGED <<projects, proposals>>

\* Proposal.query.filter_by(project_id=project_id).delete()  (routes.py:159):
\* a DELETE inside the request's transaction.
delete_project_proposals(r) ==
  /\ pc[r] = "dp_bulk"
  /\ UNCHANGED users
  /\ txn.owner = 0
  /\ txn' = [owner |-> r,
             proposals |-> Remove(proposals, ProposalsOf(proposals, req[r].prj))]
  /\ Goto(r, "dp_commit", req[r])
  /\ UNCHANGED <<projects, proposals>>

\* db.session.delete(project); db.session.commit()  (routes.py:162-165)
delete_project_commit(r) ==
  /\ pc[r] = "dp_commit"
  /\ UNCHANGED users
  /\ txn.owner = r
  /\ proposals' = txn.proposals
  /\ projects' = Remove(projects, {req[r].prj})
  /\ txn' = NoTxn
  /\ Respond(r, "delete_project", "200 ok")

\* --------------------------------------------------------- create_proposal
\* create_proposal without the check that the Project is open.
create_proposal_any_status(r, caller, prj, valid) ==
  /\ pc[r] = "idle"
  /\ UNCHANGED users
  /\ IF role[caller] # "freelancer"
       THEN Respond(r, "create_proposal", "403 denied")
     ELSE IF ~valid
       THEN Respond(r, "create_proposal", "400 field_required")
     ELSE IF prj \notin DOMAIN projects
       THEN Respond(r, "create_proposal", "404 not_found")
     ELSE Goto(r, "cp_count", [op |-> "create_proposal", caller |-> caller, pid |-> 0, prj |-> prj, st |-> NoField])
  /\ UNCHANGED <<projects, proposals, txn>>

\* role_required('freelancer'), required fields, project lookup and the
\* open check (routes.py:214-233).
create_proposal(r, caller, prj, valid) ==
  /\ pc[r] = "idle"
  /\ UNCHANGED users
  /\ IF role[caller] # "freelancer"
       THEN Respond(r, "create_proposal", "403 denied")
     ELSE IF ~valid
       THEN Respond(r, "create_proposal", "400 field_required")
     ELSE IF prj \notin DOMAIN projects
       THEN Respond(r, "create_proposal", "404 not_found")
     ELSE IF projects[prj].status # "open"
       THEN Respond(r, "create_proposal", "400 not_open")
     ELSE Goto(r, "cp_count", [op |-> "create_proposal", caller |-> caller, pid |-> 0, prj |-> prj, st |-> NoField])
  /\ UNCHANGED <<projects, proposals, txn>>

\* create_proposal_count with > in place of >=.
create_proposal_count_gt(r) ==
  /\ pc[r] = "cp_count"
  /\ UNCHANGED users
  /\ UNCHANGED <<projects, proposals, txn>>
  /\ IF existing_proposals(proposals, req[r].caller, req[r].prj) > ProposalLimit
       THEN Respond(r, "create_proposal", "400 limit_reached")
     ELSE Goto(r, "cp_insert", req[r])

\* The proposal-limit check (routes.py:235-242).
create_proposal_count(r) ==
  /\ pc[r] = "cp_count"
  /\ UNCHANGED users
  /\ UNCHANGED <<projects, proposals, txn>>
  /\ IF existing_proposals(proposals, req[r].caller, req[r].prj) >= ProposalLimit
       THEN Respond(r, "create_proposal", "400 limit_reached")
     ELSE Goto(r, "cp_insert", req[r])

\* db.session.add(proposal); db.session.commit()  (routes.py:244-259)
create_proposal_insert(r, maxId) ==
  /\ pc[r] = "cp_insert"
  /\ UNCHANGED users
  /\ CanWrite(r)
  /\ NextId(proposals) <= maxId
  /\ proposals' = Insert(proposals, NextId(proposals),
                         [status |-> "pending",
                          freelancer_id |-> req[r].caller,
                          project_id |-> req[r].prj])
  /\ Respond(r, "create_proposal", "201 created")
  /\ UNCHANGED <<projects, txn>>

\* -------------------------------------------------- update_proposal_status
\* update_proposal_status with the admin bypass of update_project.
update_proposal_status_admin(r, caller, pid, st) ==
  /\ pc[r] = "idle"
  /\ UNCHANGED users
  /\ IF pid \notin DOMAIN proposals
       THEN Respond(r, "update_proposal_status", "500 error")
     ELSE IF proposals[pid].project_id \notin DOMAIN projects
       THEN Respond(r, "update_proposal_status", "500 error")
     ELSE IF projects[proposals[pid].project_id].client_id # caller /\ role[caller] # "admin"
       THEN Respond(r, "update_proposal_status", "403 denied")
     ELSE IF st \notin {"accepted", "rejected"}
       THEN Respond(r, "update_proposal_status", "400 invalid_status")
     ELSE Goto(r, IF st = "accepted" THEN "us_bulk" ELSE "us_commit",
               [op |-> "update_proposal_status", caller |-> "-", pid |-> pid,
                prj |-> proposals[pid].project_id, st |-> st,
                loaded |-> proposals[pid].status,
                ploaded |-> projects[proposals[pid].project_id].status])
  /\ UNCHANGED <<projects, proposals, txn>>

\* Lookups, ownership check, status validation and the assignment
\* proposal.status = new_status, which stays pending in the session
\* (routes.py:349-364).  A missing Proposal (get_or_404 inside try) and a
\* Proposal whose Project row is gone (project is None) both end in the
\* except branch.  loaded and ploaded are the statuses the two objects were
\* loaded with: the session keeps the objects for the rest of the request and
\* a later flush writes an attribute only if its value differs from them.
update_proposal_status(r, caller, pid, st) ==
  /\ pc[r] = "idle"
  /\ UNCHANGED users
  /\ IF pid \notin DOMAIN proposals
       THEN Respond(r, "update_proposal_status", "500 error")
     ELSE IF proposals[pid].project_id \notin DOMAIN projects
       THEN Respond(r, "update_proposal_status", "500 error")
     ELSE IF projects[proposals[pid].project_id].client_id # caller
       THEN Respond(r, "update_proposal_status", "403 denied")
     ELSE IF st \notin {"accepted", "rejected"}
       THEN Respond(r, "update_proposal_status", "400 invalid_status")
     ELSE Goto(r, IF st = "accepted" THEN "us_bulk" ELSE "us_commit",
               [op |-> "update_proposal_status", caller |-> "-", pid |-> pid,
                prj |-> proposals[pid].project_id, st |-> st,
                loaded |-> proposals[pid].status,
                ploaded |-> projects[proposals[pid].project_id].status])
  /\ UNCHANGED <<projects, proposals, txn>>

\* RejectOthers without the bulk UPDATE of the siblings.
RejectOthers_TargetOnly(P, pid, prj) ==
  [p \in DOMAIN P |->
     IF p = pid THEN [P[p] EXCEPT !.status = "accepted"] ELSE P[p]]

\* RejectOthers without the project_id filter of the bulk UPDATE.
RejectOthers_EveryProject(P, pid, prj) ==
  [p \in DOMAIN P |->
     IF p = pid THEN [P[p] EXCEPT !.status = "accepted"]
     ELSE [P[p] EXCEPT !.status = "rejected"]]

\* The rows after the flush of the target's new status and the bulk UPDATE
\* of the other Proposals of the Project.
RejectOthers(P, pid, prj) ==
  [p \in DOMAIN P |->
     IF p = pid THEN [P[p] EXCEPT !.status = "accepted"]
     ELSE IF P[p].project_id = prj THEN [P[p] EXCEPT !.status = "rejected"]
     ELSE P[p]]

\* The rows after the bulk UPDATE alone: the Proposals of the Project other
\* than the target rejected, the target's row as it is.
RejectSiblings(P, pid, prj) ==
  [p \in DOMAIN P |->
     IF p # pid /\ P[p].project_id = prj THEN [P[p] EXCEPT !.status = "rejected"]
     ELSE P[p]]

\* reject_other_proposals where the bulk UPDATE rejects the pending siblings
\* only.
reject_other_proposals_pending_only(r) ==
  /\ pc[r] = "us_bulk"
  /\ UNCHANGED users
  /\ txn.owner = 0
  /\ UNCHANGED <<projects, proposals>>
  /\ IF req[r].pid \notin DOMAIN proposals
       THEN /\ Respond(r, "update_proposal_status", "500 error")
            /\ UNCHANGED txn
     ELSE /\ txn' = [owner |-> r,
                     proposals |->
                       [p \in DOMAIN proposals |->
                          IF p = req[r].pid
                            THEN [proposals[p] EXCEPT !.status = "accepted"]
                          ELSE IF proposals[p].project_id = req[r].prj
                                  /\ proposals[p].status = "pending"
                            THEN [proposals[p] EXCEPT !.status = "rejected"]
                          ELSE proposals[p]]]
          /\ Goto(r, "us_commit", req[r])

\* Proposal.query.filter(...).update({'status': 'rejected'}), then
\* project.status = 'in_progress' pending in the session (routes.py:367-374).
\* The query autoflushes the pending target status first; both UPDATEs run
\* inside the request's transaction.  The target's row may be gone by now:
\* its UPDATE then matches no row and the flush raises.  A target that was
\* loaded as 'accepted' has no pending change: nothing is flushed for it,
\* whatever its row holds by now, and only the bulk UPDATE runs.
reject_other_proposals(r) ==
  /\ pc[r] = "us_bulk"
  /\ UNCHANGED users
  /\ txn.owner = 0
  /\ UNCHANGED <<projects, proposals>>
  /\ IF req[r].loaded = "accepted"
       THEN /\ txn' = [owner |-> r,
                       proposals |-> RejectSiblings(proposals, req[r].pid, req[r].prj)]
            /\ Goto(r, "us_commit", req[r])
     ELSE IF req[r].pid \notin DOMAIN proposals
       THEN /\ Respond(r, "update_proposal_status", "500 error")
            /\ UNCHANGED txn
     ELSE /\ txn' = [owner |-> r,
                     proposals |-> RejectOthers(proposals, req[r].pid, req[r].prj)]
          /\ Goto(r, "us_commit", req[r])

\* update_proposal_status_commit where 'rejected' also moves the Project to
\* in_progress.
update_proposal_status_commit_cascade(r) ==
  /\ pc[r] = "us_commit"
  /\ UNCHANGED users
  /\ CanWrite(r)
  /\ txn' = NoTxn
  /\ IF req[r].pid \notin DOMAIN proposals \/ req[r].prj \notin DOMAIN projects
       THEN /\ UNCHANGED <<projects, proposals>>
            /\ Respond(r, "update_proposal_status", "500 error")
     ELSE /\ proposals' = IF req[r].st = "accepted" THEN txn.proposals
                          ELSE [proposals EXCEPT ![req[r].pid].status = req[r].st]
          /\ projects' = [projects EXCEPT ![req[r].prj].status = "in_progress"]
          /\ Respond(r, "update_proposal_status", "200 ok")

\* db.session.commit()  (routes.py:376-378).  For 'accepted' it flushes the
\* Project's new status and commits the transaction; for 'rejected' it
\* flushes the target's status and commits.  An object whose new status
\* equals the status it was loaded with is not written: a Project loaded as
\* in_progress and a target loaded as 'rejected' keep whatever their rows
\* hold by now, and a row that is gone then raises nothing.
update_proposal_status_commit(r) ==
  /\ pc[r] = "us_commit"
  /\ UNCHANGED users
  /\ IF req[r].st = "accepted"
       THEN /\ txn.owner = r
            /\ txn' = NoTxn
            /\ IF req[r].ploaded = "in_progress"
                 THEN /\ proposals' = txn.proposals
                      /\ UNCHANGED projects
                      /\ Respond(r, "update_proposal_status", "200 ok")
               ELSE IF req[r].prj \notin DOMAIN projects
                 THEN /\ UNCHANGED <<projects, proposals>>
                      /\ Respond(r, "update_proposal_status", "500 error")
               ELSE /\ proposals' = txn.proposals
                    /\ projects' = [projects EXCEPT ![req[r].prj].status = "in_progress"]
                    /\ Respond(r, "update_proposal_status", "200 ok")
     ELSE /\ txn.owner = 0
          /\ UNCHANGED <<projects, txn>>
          /\ IF req[r].loaded = "rejected"
               THEN /\ UNCHANGED proposals
                    /\ Respond(r, "update_proposal_status", "200 ok")
             ELSE IF req[r].pid \notin DOMAIN proposals
               THEN /\ UNCHANGED proposals
                    /\ Respond(r, "update_proposal_status", "500 error")
             ELSE /\ proposals' = [proposals EXCEPT ![req[r].pid].status = req[r].st]
                  /\ Respond(r, "update_proposal_status", "200 ok")

\* ------------------------------------------------------------- get_project
\* routes.py:60-79.  Any authenticated caller; get_or_404 inside try.
get_project(r, prj) ==
  /\ pc[r] = "idle"
  /\ IF prj \notin DOMAIN projects
       THEN Respond(r, "get_project", "500 error")
     ELSE Respond(r, "get_project", "200 ok")
  /\ UNCHANGED <<projects, proposals, txn, users>>

\* ------------------------------------------------------------ get_proposal
\* get_proposal where every freelancer has access.
get_proposal_any_freelancer(r, caller, pid) ==
  /\ pc[r] = "idle"
  /\ IF pid \notin DOMAIN proposals
       THEN Respond(r, "get_proposal", "500 error")
     ELSE IF proposals[pid].project_id \notin DOMAIN projects
       THEN Respond(r, "get_proposal", "500 error")
     ELSE IF ~ \/ role[caller] = "freelancer"
               \/ projects[proposals[pid].project_id].client_id = caller
               \/ role[caller] = "admin"
       THEN Respond(r, "get_proposal", "403 denied")
     ELSE RespondWith(r, "get_proposal", "200 ok", {pid})
  /\ UNCHANGED <<projects, proposals, txn, users>>

\* routes.py:384-423.  get_or_404 inside try; proposal.project is None when
\* the Project row is gone, and reading its client_id (line 395) or its id
\* (line 415) raises, for whichever caller.
get_proposal(r, caller, pid) ==
  /\ pc[r] = "idle"
  /\ IF pid \notin DOMAIN proposals
       THEN Respond(r, "get_proposal", "500 error")
     ELSE IF proposals[pid].project_id \notin DOMAIN projects
       THEN Respond(r, "get_proposal", "500 error")
     ELSE IF ~ \/ proposals[pid].freelancer_id = caller
               \/ projects[proposals[pid].project_id].client_id = caller
               \/ role[caller] = "admin"
       THEN Respond(r, "get_proposal", "403 denied")
     ELSE RespondWith(r, "get_proposal", "200 ok", {pid})
  /\ UNCHANGED <<projects, proposals, txn, users>>

\* -------------------------------------------------------- get_my_proposals
\* Proposal.query.filter_by(freelancer_id=...)
ProposalsBy(P, f) == {p \in DOMAIN P : P[p].freelancer_id = f}

\* .order_by(Proposal.submitted_at.desc()).paginate(page, per_page,
\* error_out=False) over the rows S: a row's place is the number of rows of S
\* submitted after it, which are the rows with a larger id (a new row's id
\* is above every id in the table); a page below 1 is taken as page 1.
Paginate(S, page, per_page) ==
  LET pg == IF page < 1 THEN 1 ELSE page
      place(p) == Cardinality({q \in S : q > p})
  IN {p \in S : (pg - 1) * per_page <= place(p) /\ place(p) < pg * per_page}

\* get_my_proposals without the filter on the freelancer.
get_my_proposals_unfiltered(r, caller, page, per_page) ==
  /\ pc[r] = "idle"
  /\ IF role[caller] # "freelancer"
       THEN Respond(r, "get_my_proposals", "403 denied")
     ELSE LET items == Paginate(DOMAIN proposals, page, per_page)
          IN IF \E p \in items : proposals[p].project_id \notin DOMAIN projects
               THEN Respond(r, "get_my_proposals", "500 error")
             ELSE RespondWith(r, "get_my_proposals", "200 ok", items)
  /\ UNCHANGED <<projects, proposals, txn, users>>

\* routes.py:304-342.  role_required('freelancer'); each row of the page is
\* returned with a snapshot of its Project, and reading proposal.project.id
\* raises when that Project row is gone.
get_my_proposals(r, caller, page, per_page) ==
  /\ pc[r] = "idle"
  /\ IF role[caller] # "freelancer"
       THEN Respond(r, "get_my_proposals", "403 denied")
     ELSE LET items == Paginate(ProposalsBy(proposals, caller), page, per_page)
          IN IF \E p \in items : proposals[p].project_id \notin DOMAIN projects
               THEN Respond(r, "get_my_proposals", "500 error")
             ELSE RespondWith(r, "get_my_proposals", "200 ok", items)
  /\ UNCHANGED <<projects, proposals, txn, users>>

\* ---------------------------------------------------------------- register
\* User.query.filter_by(email=...).first()
UserWithEmail(U, em) == {u \in DOMAIN U : U[u].email = em}

\* The id of the next User row.
NextUser(U) ==
  CHOOSE u \in NewUsers \ DOMAIN U :
    \A v \in NewUsers \ DOMAIN U : NewUserOrder[u] <= NewUserOrder[v]

\* Required fields, role validation and the check that the e-mail is free
\* (auth.py:30-44).  valid: all five fields are sent and not empty.
register(r, valid, rl, em) ==
  /\ pc[r] = "idle"
  /\ IF ~valid
       THEN Respond(r, "register", "400 field_required")
     ELSE IF rl \notin {"client", "freelancer", "admin"}
       THEN Respond(r, "register", "400 invalid_role")
     ELSE IF UserWithEmail(users, em) # {}
       THEN Respond(r, "register", "400 user_exists")
     ELSE Goto(r, "rg_insert", [op |-> "register", caller |-> "-", rl |-> rl, em |-> em])
  /\ UNCHANGED <<projects, proposals, txn, users>>

\* register_insert without the UNIQUE constraint on user.email.
register_insert_not_unique(r) ==
  /\ pc[r] = "rg_insert"
  /\ CanWrite(r)
  /\ NewUsers \ DOMAIN users # {}
  /\ UNCHANGED <<projects, proposals, txn>>
  /\ users' = Insert(users, NextUser(users),
                     [email |-> req[r].em, first_name |-> "A",
                      last_name |-> "A", role |-> req[r].rl])
  /\ Respond(r, "register", "201 created")

\* db.session.add(user); db.session.commit()  (auth.py:46-56).  The INSERT
\* fails on the UNIQUE constraint of user.email (models.py:13) when a row
\* with this e-mail was committed since the check; the exception is answered
\* 500 and nothing is committed.
register_insert(r) ==
  /\ pc[r] = "rg_insert"
  /\ CanWrite(r)
  /\ NewUsers \ DOMAIN users # {}
  /\ UNCHANGED <<projects, proposals, txn>>
  /\ IF UserWithEmail(users, req[r].em) # {}
       THEN /\ UNCHANGED users
            /\ Respond(r, "register", "500 error")
     ELSE /\ users' = Insert(users, NextUser(users),
                             [email |-> req[r].em, first_name |-> "A",
                              last_name |-> "A", role |-> req[r].rl])
          /\ Respond(r, "register", "201 created")

\* ---------------------------------------------------------- update_profile
\* The caller's row with the fields a request supplies.
Supplied(row, fn, ln, em) ==
  [row EXCEPT !.first_name = IF fn = NoField THEN @ ELSE fn,
              !.last_name = IF ln = NoField THEN @ ELSE ln,
              !.email = IF em = NoField THEN @ ELSE em]

\* update_profile_commit with the check of line 156 as its only guard of
\* the e-mail, and with what is pending written when the check refuses.
update_profile_writes_first(r, caller, fn, ln, em) ==
  /\ pc[r] = "idle"
  /\ UNCHANGED <<projects, proposals>>
  /\ IF em # NoField /\ UserWithEmail(users, em) \ {caller} # {}
       THEN /\ CanWrite(r)
            /\ users' = [users EXCEPT ![caller] = Supplied(@, fn, ln, NoField)]
            /\ UNCHANGED txn
            /\ Respond(r, "update_profile", "400 email_taken")
     ELSE /\ UNCHANGED <<txn, users>>
          /\ Goto(r, "pf_commit", [op |-> "update_profile", caller |-> caller,
                                   fn |-> fn, ln |-> ln, em |-> em])

\* auth.py:140-158.  The names are assigned to the session's User object
\* first; the query of line 155 autoflushes them, an UPDATE inside the
\* request's transaction, which therefore holds the write lock from then on.
\* "Email already taken" returns without commit, and the request's session
\* is discarded: the transaction is rolled back.
update_profile(r, caller, fn, ln, em) ==
  /\ pc[r] = "idle"
  /\ UNCHANGED <<projects, proposals, users>>
  /\ IF em = NoField
       THEN /\ UNCHANGED txn
            /\ Goto(r, "pf_commit", [op |-> "update_profile", caller |-> caller,
                                     fn |-> fn, ln |-> ln, em |-> em])
     ELSE /\ Supplied(users[caller], fn, ln, NoField) # users[caller] => txn.owner = 0
          /\ IF UserWithEmail(users, em) \ {caller} # {}
               THEN /\ UNCHANGED txn
                    /\ Respond(r, "update_profile", "400 email_taken")
             ELSE /\ txn' = IF Supplied(users[caller], fn, ln, NoField) # users[caller]
                              THEN [owner |-> r, proposals |-> proposals]
                              ELSE txn
                  /\ Goto(r, "pf_commit", [op |-> "update_profile", caller |-> caller,
                                           fn |-> fn, ln |-> ln, em |-> em])

\* db.session.commit()  (auth.py:160-171): the UPDATE of the caller's row,
\* which fails on the UNIQUE constraint of user.email when another row holds
\* the new e-mail by now.
update_profile_commit(r) ==
  /\ pc[r] = "pf_commit"
  /\ CanWrite(r)
  /\ UNCHANGED <<projects, proposals>>
  /\ txn' = NoTxn
  /\ IF req[r].em # NoField /\ UserWithEmail(users, req[r].em) \ {req[r].caller} # {}
       THEN /\ UNCHANGED users
            /\ Respond(r, "update_profile", "500 error")
     ELSE /\ users' = [users EXCEPT ![req[r].caller] =
                          Supplied(@, req[r].fn, req[r].ln, req[r].em)]
          /\ Respond(r, "update_profile", "200 ok")

\* ------------------------------------------------------------------ failure
\* Any statement of a running handler may raise (storage or runtime failure):
\* "except Exception" answers 500, and the request's session is discarded
\* without commit, which rolls its transaction back.
handler_fails(r) ==
  /\ pc[r] # "idle"
  /\ UNCHANGED users
  /\ txn' = IF txn.owner = r THEN NoTxn ELSE txn
  /\ Respond(r, req[r].op, "500 error")
  /\ UNCHANGED <<projects, proposals>>

\* The steps of slot r in a world w, for the handlers that write Projects and
\* Proposals: w.users are the users whose requests are explored, w.creators
\* the clients among them who create Projects, w.bidders the freelancers
\* among them who create Proposals, w.statuses the status values sent to
\* update_project, w.budgets the budgets sent to create_project, w.projects
\* and w.proposals cap the ids in use.
Handle(r, w) ==
  \/ \E c \in w.creators \cup (w.users \ Clients), v \in BOOLEAN, b \in w.budgets :
       create_project(r, c, v, b, w.projects)
  \/ \E c \in w.users, p \in ProjectIds, s \in w.statuses \cup {NoField} :
       update_project(r, c, p, s)
  \/ update_project_commit(r)
  \/ \E c \in w.users, p \in ProjectIds : delete_project(r, c, p)
  \/ delete_project_proposals(r)
  \/ delete_project_commit(r)
  \/ \E c \in w.bidders \cup (w.users \ Freelancers), p \in ProjectIds, v \in BOOLEAN :
       create_proposal(r, c, p, v)
  \/ create_proposal_count(r)
  \/ create_proposal_insert(r, w.proposals)
  \/ \E c \in w.users, p \in ProposalIds, s \in ProposalStatusInputs :
       update_proposal_status(r, c, p, s)
  \/ reject_other_proposals(r)
  \/ update_proposal_status_commit(r)
  \/ handler_fails(r)

\* The steps of slot r for the handlers that only read.  They are explored
\* one request at a time, where a handler's queries see one state of the
\* tables.
Read(r, w) ==
  \/ \E p \in ProjectIds : get_project(r, p)
  \/ \E c \in w.users, p \in ProposalIds : get_proposal(r, c, p)
  \/ \E c \in w.users, pg \in 0 .. MaxPage, n \in 1 .. MaxPerPage :
       get_my_proposals(r, c, pg, n)

\* The steps of slot r for the handlers of auth.py that write User rows, in
\* a world a: a.callers are the users who update their profile, a.emails,
\* a.names and a.roles the values sent.
Account(r, a) ==
  \/ \E v \in BOOLEAN, rl \in a.roles, em \in a.emails : register(r, v, rl, em)
  \/ register_insert(r)
  \/ \E c \in a.callers, fn \in a.names \cup {NoField}, ln \in a.names \cup {NoField},
        em \in a.emails \cup {NoField} :
       update_profile(r, c, fn, ln, em)
  \/ update_profile_commit(r)
  \/ handler_fails(r)

\* One request at a time, every user calling.
SeqWorld == [users |-> Users, creators |-> {"c1"}, bidders |-> Freelancers,
             statuses |-> ProjectStatusInputs, budgets |-> {1},
             projects |-> SeqProjects, proposals |-> MaxProposals]
Next == Handle(1, SeqWorld)
Spec == Init /\ [][Next]_vars

\* One request at a time, every user calling, the reading handlers included;
\* update_project sends no status but open.
ReadWorld == [SeqWorld EXCEPT !.statuses = {"open"}]
NextRead == Handle(1, ReadWorld) \/ Read(1, ReadWorld)
SpecRead == Init /\ [][NextRead]_vars

\* Two requests at a time, of one client, one freelancer and the admin.
RaceWorld == [users |-> {"c1", "f1", "a1"}, creators |-> {"c1"}, bidders |-> {"f1"},
              statuses |-> {"open"}, budgets |-> {1},
              projects |-> RaceProjects, proposals |-> MaxProposals]
NextRace == \E r \in Reqs : Handle(r, RaceWorld)
SpecRace == Init /\ [][NextRace]_vars

\* One request at a time, of one client and one freelancer, on two Projects.
PairWorld == [users |-> {"c1", "f1"}, creators |-> {"c1"}, bidders |-> {"f1"},
              statuses |-> {"open"}, budgets |-> {1},
              projects |-> PairProjects, proposals |-> PairProposals]
NextPair == Handle(1, PairWorld)
SpecPair == Init /\ [][NextPair]_vars

\* One request at a time of every handler, by one client and one freelancer
\* on one Project: the client also updates its profile, and anyone registers.
SmallWorld == [users |-> {"c1", "f1"}, creators |-> {"c1"}, bidders |-> {"f1"},
               statuses |-> {"open"}, budgets |-> {-1, 0, 1},
               projects |-> SeqProjects, proposals |-> MaxProposals - 1]
SmallAccounts == [callers |-> {"c1"}, emails |-> {"f1", "new"},
                  names |-> {"B"}, roles |-> {"freelancer", "manager"}]
NextSmall == Handle(1, SmallWorld) \/ Read(1, SmallWorld) \/ Account(1, SmallAccounts)
SpecSmall == Init /\ [][NextSmall]_vars

\* Two requests at a time of register and update_profile.
RaceAccounts == [callers |-> {"c1", "f1"}, emails |-> {"c1", "f1", "new"},
                 names |-> {}, roles |-> {"client", "manager"}]
NextAccountRace == \E r \in Reqs : Account(r, RaceAccounts)
SpecAccountRace == Init /\ [][NextAccountRace]_vars

\* ------------------------------------------------------------------ claims
Decided == {"accepted", "rejected"}

\* The step ends slot r's handler with the response msg.
Returns(r, op, msg) ==
  /\ pc'[r] = "idle"
  /\ resp' = [op |-> op, msg |-> msg]

StoreUnchanged == projects' = projects /\ proposals' = proposals

\* The step may be the first step of handler op in slot r: the slot was free,
\* and the step answers for op or leaves the slot inside op.
MayStart(r, op) ==
  /\ pc[r] = "idle"
  /\ resp'.op = op \/ req'[r].op = op

\* Slot r commits an 'accepted' status update.
AcceptCommits(r) ==
  /\ pc[r] = "us_commit"
  /\ req[r].st = "accepted"
  /\ pc'[r] = "idle"
  /\ resp' = [op |-> "update_proposal_status", msg |-> "200 ok"]

\* C1: once a Proposal's status is accepted or rejected, no step changes it.
C1_DecidedIsTerminal ==
  [][\A p \in DOMAIN proposals \cap DOMAIN proposals' :
       proposals[p].status \in Decided => proposals'[p].status = proposals[p].status]_vars

\* C2: when a Proposal of a Project is accepted, every other Proposal of that
\* Project is rejected.
C2_AcceptedMeansOthersRejected ==
  \A p \in DOMAIN proposals, q \in DOMAIN proposals :
    (/\ p # q
     /\ proposals[p].project_id = proposals[q].project_id
     /\ proposals[p].status = "accepted")
    => proposals[q].status = "rejected"

\* C3: a committed setStatus(P, accepted) leaves P accepted, every other
\* Proposal of P's Project rejected and the Project in_progress.
C3_AcceptOutcome ==
  [][\A r \in Reqs :
       AcceptCommits(r) =>
         /\ req[r].pid \in DOMAIN proposals'
         /\ proposals'[req[r].pid].status = "accepted"
         /\ \A q \in DOMAIN proposals' \ {req[r].pid} :
              proposals'[q].project_id = req[r].prj => proposals'[q].status = "rejected"
         /\ req[r].prj \in DOMAIN projects'
         /\ projects'[req[r].prj].status = "in_progress"]_vars

\* An accept has just been answered 200 with two other Proposals, of both
\* freelancers, on the Project.
C3_Witness ==
  /\ resp = [op |-> "update_proposal_status", msg |-> "200 ok"]
  /\ \E p \in DOMAIN proposals :
       /\ proposals[p].status = "accepted"
       /\ projects[proposals[p].project_id].status = "in_progress"
       /\ \E q1, q2 \in DOMAIN proposals \ {p} :
            /\ q1 # q2
            /\ proposals[q1].freelancer_id # proposals[q2].freelancer_id
            /\ proposals[q1].status = "rejected"
            /\ proposals[q2].status = "rejected"

\* C5: a Project's status becomes in_progress only in the step that commits
\* the accept of one of its Proposals.
C5_InProgressOnlyByAccept ==
  [][\A x \in DOMAIN projects \cap DOMAIN projects' :
       (projects[x].status # "in_progress" /\ projects'[x].status = "in_progress")
       => \E r \in Reqs : AcceptCommits(r) /\ req[r].prj = x]_vars

\* C4: every step of a request that accepts a Proposal either leaves the
\* committed rows as they are or commits the whole cascade (target accepted,
\* every sibling there is rejected, Project in_progress); a step that fails
\* leaves them as they are.
C4_AcceptIsAtomic ==
  [][\A r \in Reqs :
       (/\ req[r].op = "update_proposal_status"
        /\ req[r].st = "accepted"
        /\ pc'[r] # pc[r])
       => /\ \/ StoreUnchanged
             \/ /\ req[r].pid \in DOMAIN proposals'
                /\ proposals'[req[r].pid].status = "accepted"
                /\ \A q \in DOMAIN proposals \ {req[r].pid} :
                     proposals[q].project_id = req[r].prj
                     => q \in DOMAIN proposals' /\ proposals'[q].status = "rejected"
                /\ req[r].prj \in DOMAIN projects'
                /\ projects'[req[r].prj].status = "in_progress"
          /\ resp'.msg = "500 error" => StoreUnchanged]_vars

\* C6: no freelancer has more than 3 Proposals on one Project.
C6_AtMostThreePerPair ==
  \A f \in Users, x \in ProjectIds :
    existing_proposals(proposals, f, x) <= ProposalLimit

\* C7: a valid create proposal of a freelancer on an open Project goes on to
\* the limit check; the check lets it insert when the freelancer has fewer
\* than 3 Proposals on the Project and answers "limit reached", inserting
\* nothing, when it has 3 or more; the insert adds one pending Proposal of
\* that freelancer on that Project.
C7_LimitDecides ==
  [][\A r \in Reqs :
       /\ MayStart(r, "create_proposal") =>
            \A c \in Freelancers, x \in DOMAIN projects :
              (projects[x].status = "open" /\ create_proposal(r, c, x, TRUE))
              => pc'[r] = "cp_count" /\ req'[r].caller = c /\ req'[r].prj = x
       /\ create_proposal_count(r) =>
            IF existing_proposals(proposals, req[r].caller, req[r].prj) < ProposalLimit
              THEN pc'[r] = "cp_insert" /\ req'[r] = req[r]
              ELSE /\ Returns(r, "create_proposal", "400 limit_reached")
                   /\ StoreUnchanged
       /\ create_proposal_insert(r, MaxProposals) =>
            /\ Returns(r, "create_proposal", "201 created")
            /\ \E id \in ProposalIds \ DOMAIN proposals :
                 proposals' = Insert(proposals, id,
                                     [status |-> "pending",
                                      freelancer_id |-> req[r].caller,
                                      project_id |-> req[r].prj])]_vars

\* A freelancer with 3 Proposals on an open Project was just refused, while
\* the other freelancer has a Proposal there too.
C7_Witness ==
  /\ resp = [op |-> "create_proposal", msg |-> "400 limit_reached"]
  /\ \E f \in Freelancers, g \in Freelancers, x \in DOMAIN projects :
       /\ f # g
       /\ projects[x].status = "open"
       /\ existing_proposals(proposals, f, x) = ProposalLimit
       /\ existing_proposals(proposals, g, x) = 1

\* C8: a valid create proposal of a freelancer on a Project that is not open
\* is answered "not accepting proposals" and changes no row.
C8_NotOpenRefused ==
  [][\A r \in Reqs :
       MayStart(r, "create_proposal") =>
         \/ Returns(r, "create_proposal", "400 not_open") /\ StoreUnchanged
         \/ \A c \in Freelancers, x \in DOMAIN projects :
              ~ (projects[x].status # "open" /\ create_proposal(r, c, x, TRUE))]_vars

\* A create proposal was just refused on a Project whose status is none of
\* the three lifecycle values.
C8_Witness ==
  /\ resp = [op |-> "create_proposal", msg |-> "400 not_open"]
  /\ \E x \in DOMAIN projects : projects[x].status = "archived"

\* C9: a delete of a Project changes the committed rows in one step only, the
\* one answered 200, after which neither the Project row nor any Proposal row
\* of that Project is left.
C9_DeleteIsAtomic ==
  [][\A r \in Reqs :
       (req[r].op = "delete_project" /\ pc'[r] # pc[r])
       => IF Returns(r, "delete_project", "200 ok")
            THEN /\ req[r].prj \notin DOMAIN projects'
                 /\ ProposalsOf(proposals', req[r].prj) = {}
            ELSE StoreUnchanged]_vars

\* A delete has removed the Project's Proposals in its transaction, the
\* committed rows still hold the Project and at least two of its Proposals,
\* and the commit is its next step.
C9_Witness ==
  \E r \in Reqs :
    /\ pc[r] = "dp_commit"
    /\ txn.owner = r
    /\ req[r].prj \in DOMAIN projects
    /\ Cardinality(ProposalsOf(proposals, req[r].prj)) >= 2
    /\ ProposalsOf(txn.proposals, req[r].prj) = {}

\* C10: setStatus by anyone but the owning client of the Proposal's Project
\* is answered "Access denied" and changes no row.
C10_OnlyOwnerSetsStatus ==
  [][\A r \in Reqs :
       MayStart(r, "update_proposal_status") =>
         \/ Returns(r, "update_proposal_status", "403 denied") /\ StoreUnchanged
         \/ \A c \in Users, p \in DOMAIN proposals, s \in ProposalStatusInputs :
              ~ /\ proposals[p].project_id \in DOMAIN projects
                /\ projects[proposals[p].project_id].client_id # c
                /\ update_proposal_status(r, c, p, s)]_vars

\* A setStatus on an existing, still pending Proposal was just denied.
C10_Witness ==
  /\ resp = [op |-> "update_proposal_status", msg |-> "403 denied"]
  /\ \E p \in DOMAIN proposals :
       /\ proposals[p].project_id \in DOMAIN projects
       /\ proposals[p].status = "pending"

\* C11: update project and delete project by a caller who is neither the
\* Project's owning client nor an admin are answered "Access denied", end
\* there, and change no Project or Proposal row.
C11_OnlyOwnerOrAdminWrites ==
  [][\A r \in Reqs :
       /\ MayStart(r, "update_project") =>
            \/ Returns(r, "update_project", "403 denied") /\ StoreUnchanged
            \/ \A c \in Users, x \in DOMAIN projects, s \in ProjectStatusInputs \cup {NoField} :
                 ~ /\ projects[x].client_id # c
                   /\ role[c] # "admin"
                   /\ update_project(r, c, x, s)
       /\ MayStart(r, "delete_project") =>
            \/ Returns(r, "delete_project", "403 denied") /\ StoreUnchanged
            \/ \A c \in Users, x \in DOMAIN projects :
                 ~ /\ projects[x].client_id # c
                   /\ role[c] # "admin"
                   /\ delete_project(r, c, x)]_vars

\* A delete was just denied on a Project that has Proposals of both
\* freelancers.
C11_Witness ==
  /\ resp = [op |-> "delete_project", msg |-> "403 denied"]
  /\ \E x \in DOMAIN projects :
       \A f \in Freelancers : existing_proposals(proposals, f, x) >= 1

\* C12: get, update and delete project with an id that has no Project row,
\* and get and setStatus proposal with an id that has no Proposal row, are
\* answered 404 (not found) and change no row.
C12_MissingRowIsNotFound ==
  [][\A r \in Reqs :
       /\ \A x \in ProjectIds \ DOMAIN projects :
            /\ get_project(r, x)
                 => Returns(r, "get_project", "404 not_found") /\ StoreUnchanged
            /\ (\E c \in Users, s \in ProjectStatusInputs \cup {NoField} : update_project(r, c, x, s))
                 => Returns(r, "update_project", "404 not_found") /\ StoreUnchanged
            /\ (\E c \in Users : delete_project(r, c, x))
                 => Returns(r, "delete_project", "404 not_found") /\ StoreUnchanged
       /\ \A p \in ProposalIds \ DOMAIN proposals :
            /\ (\E c \in Users : get_proposal(r, c, p))
                 => Returns(r, "get_proposal", "404 not_found") /\ StoreUnchanged
            /\ (\E c \in Users, s \in ProposalStatusInputs : update_proposal_status(r, c, p, s))
                 => Returns(r, "update_proposal_status", "404 not_found") /\ StoreUnchanged]_vars

\* Caller c is the submitting freelancer of Proposal p, the owning client of
\* its Project, or an admin.
MayView(c, p) ==
  \/ proposals[p].freelancer_id = c
  \/ projects[proposals[p].project_id].client_id = c
  \/ role[c] = "admin"

\* C14: get proposal returns the Proposal, and only it, to its submitting
\* freelancer, to the owning client of its Project and to an admin; for any
\* other caller it is answered "Access denied" and carries no Proposal data.
C14_GetProposalAccess ==
  [][\A r \in Reqs :
       MayStart(r, "get_proposal") =>
         \A c \in Users, p \in DOMAIN proposals :
           (proposals[p].project_id \in DOMAIN projects /\ get_proposal(r, c, p))
           => IF MayView(c, p)
                THEN Returns(r, "get_proposal", "200 ok") /\ sent' = {p}
                ELSE Returns(r, "get_proposal", "403 denied") /\ sent' = {}]_vars

\* A get proposal was just denied while Proposals of both freelancers exist
\* on a Project.
C14_Witness ==
  /\ resp = [op |-> "get_proposal", msg |-> "403 denied"]
  /\ sent = {}
  /\ \E p \in DOMAIN proposals, q \in DOMAIN proposals :
       /\ proposals[p].freelancer_id # proposals[q].freelancer_id
       /\ proposals[p].project_id \in DOMAIN projects

\* C15: whatever the page and the page size, every Proposal that
\* get_my_proposals returns to a freelancer was submitted by that freelancer.
C15_ListMineIsolation ==
  [][\A r \in Reqs :
       MayStart(r, "get_my_proposals") =>
         \A c \in Users, pg \in 0 .. MaxPage, n \in 1 .. MaxPerPage :
           get_my_proposals(r, c, pg, n)
           => \A p \in sent' : p \in DOMAIN proposals /\ proposals[p].freelancer_id = c]_vars

\* A freelancer with three Proposals was just returned a page holding the
\* oldest one only, while the other freelancer has a Proposal too.
C15_Witness ==
  /\ resp = [op |-> "get_my_proposals", msg |-> "200 ok"]
  /\ \E p \in DOMAIN proposals, q \in DOMAIN proposals :
       /\ sent = {p}
       /\ Cardinality(ProposalsBy(proposals, proposals[p].freelancer_id)) = 3
       /\ \A o \in ProposalsBy(proposals, proposals[p].freelancer_id) : p <= o
       /\ proposals[q].freelancer_id # proposals[p].freelancer_id

\* The answers that report a validation, authorization, not-found or
\* conflict error.
Refusals == {"400 field_required", "400 invalid_role", "400 user_exists",
             "400 email_taken", "400 not_open", "400 limit_reached",
             "400 invalid_status", "403 denied", "404 not_found"}

\* The step answers a request in its first step with the error of a lookup
\* that found no row.
LookupFails ==
  /\ resp'.msg = "500 error"
  /\ \E r \in Reqs : pc[r] = "idle" /\ pc'[r] = "idle" /\ req'[r] = NoReq

\* C13: a step that answers with a validation, authorization, not-found or
\* conflict error leaves every committed User, Project and Proposal row as it
\* was: among them update profile answered "Email already taken" and
\* setStatus answered "Status must be accepted or rejected".
C13_RefusalsChangeNothing ==
  [][(resp'.msg \in Refusals \/ LookupFails)
       => users' = users /\ StoreUnchanged]_vars

\* An update profile was just answered "Email already taken" while a Project
\* with a Proposal exists.
C13_Witness ==
  /\ resp = [op |-> "update_profile", msg |-> "400 email_taken"]
  /\ \E p \in DOMAIN proposals : proposals[p].project_id \in DOMAIN projects

\* C16: a setStatus(P, rejected) changes no row in any of its steps but the
\* one answered 200, which sets P's status to rejected and leaves every other
\* Proposal, of the same and of any other Project, and every Project as it
\* was.
C16_RejectChangesOnlyTarget ==
  [][\A r \in Reqs :
       (/\ req[r].op = "update_proposal_status"
        /\ req[r].st = "rejected"
        /\ pc'[r] # pc[r])
       => IF Returns(r, "update_proposal_status", "200 ok")
            THEN /\ projects' = projects
                 /\ proposals' = [proposals EXCEPT ![req[r].pid].status = "rejected"]
            ELSE StoreUnchanged]_vars

\* A reject was just answered 200: the rejected Proposal has a pending
\* sibling on its Project, the other Project has a pending Proposal, and both
\* Projects are open.
C16_Witness ==
  /\ resp = [op |-> "update_proposal_status", msg |-> "200 ok"]
  /\ \E p \in DOMAIN proposals, q \in DOMAIN proposals, o \in DOMAIN proposals :
       /\ proposals[p].status = "rejected"
       /\ proposals[q].status = "pending"
       /\ proposals[o].status = "pending"
       /\ proposals[q].project_id = proposals[p].project_id
       /\ proposals[o].project_id # proposals[p].project_id
  /\ DOMAIN projects = ProjectIds
  /\ \A x \in DOMAIN projects : projects[x].status = "open"

\* The place of a status in the lifecycle open -> in_progress -> completed.
LifecycleRank(st) ==
  IF st = "open" THEN 1 ELSE IF st = "in_progress" THEN 2
  ELSE IF st = "completed" THEN 3 ELSE 0

\* C17: a Project's status is always one of open, in_progress, completed; a
\* new Project starts as open; and a step that changes a Project's status
\* moves it forward in the lifecycle.
C17_StatusFollowsLifecycle ==
  [][/\ \A x \in DOMAIN projects' : LifecycleRank(projects'[x].status) > 0
     /\ \A x \in DOMAIN projects' \ DOMAIN projects : projects'[x].status = "open"
     /\ \A x \in DOMAIN projects' \cap DOMAIN projects :
          projects'[x].status # projects[x].status
          => LifecycleRank(projects'[x].status) > LifecycleRank(projects[x].status)]_vars

\* The answers that report success.
Successes == {"200 ok", "201 created"}

\* C18: no two User rows have the same e-mail; and a step of register for an
\* e-mail that a row holds, or of update profile for an e-mail that another
\* user's row holds, is refused and changes no User row.
C18_EmailsAreUnique ==
  /\ [](\A u \in DOMAIN users, v \in DOMAIN users :
          u # v => users[u].email # users[v].email)
  /\ [][\A r \in Reqs :
          /\ \A v \in BOOLEAN, rl \in RoleInputs, em \in Emails :
               (UserWithEmail(users, em) # {} /\ register(r, v, rl, em))
               => pc'[r] = "idle" /\ resp'.msg \notin Successes /\ users' = users
          /\ (register_insert(r) /\ UserWithEmail(users, req[r].em) # {})
               => pc'[r] = "idle" /\ resp'.msg \notin Successes /\ users' = users
          /\ \A c \in Users, em \in Emails :
               (UserWithEmail(users, em) \ {c} # {} /\ update_profile(r, c, NoField, NoField, em))
               => pc'[r] = "idle" /\ resp'.msg \notin Successes /\ users' = users
          /\ (update_profile_commit(r) /\ UserWithEmail(users, req[r].em) \ {req[r].caller} # {})
               => pc'[r] = "idle" /\ resp'.msg \notin Successes /\ users' = users]_vars

\* A register passed the check of its e-mail, another request committed a
\* row with that e-mail since, and the INSERT is the register's next step.
C18_Witness ==
  \E r \in Reqs :
    /\ pc[r] = "rg_insert"
    /\ UserWithEmail(users, req[r].em) # {}
    /\ \E u \in DOMAIN users : u \in NewUsers

\* C19: create project by a caller whose role is not client, and create
\* proposal by a caller whose role is not freelancer, are answered 403 and
\* change no row; a new Project row belongs to a client and a new Proposal
\* row to a freelancer.
C19_CreationIsRoleGated ==
  [][/\ \A r \in Reqs :
          /\ MayStart(r, "create_project") =>
               \A c \in Users, v \in BOOLEAN, b \in {-1, 0, 1} :
                 (role[c] # "client" /\ create_project(r, c, v, b, MaxProjects))
                 => Returns(r, "create_project", "403 denied") /\ StoreUnchanged
          /\ MayStart(r, "create_proposal") =>
               \A c \in Users, x \in ProjectIds, v \in BOOLEAN :
                 (role[c] # "freelancer" /\ create_proposal(r, c, x, v))
                 => Returns(r, "create_proposal", "403 denied") /\ StoreUnchanged
     /\ \A x \in DOMAIN projects' \ DOMAIN projects :
          role[projects'[x].client_id] = "client"
     /\ \A p \in DOMAIN proposals' \ DOMAIN proposals :
          role[proposals'[p].freelancer_id] = "freelancer"]_vars

\* A create proposal was just denied while an open Project exists on which
\* no freelancer has reached the limit.
C19_Witness ==
  /\ resp = [op |-> "create_proposal", msg |-> "403 denied"]
  /\ \E x \in DOMAIN projects :
       /\ projects[x].status = "open"
       /\ \A f \in Freelancers : existing_proposals(proposals, f, x) < ProposalLimit

\* C20: every Project row has a budget above 0 (create project refuses a
\* budget that is zero or negative).
C20_BudgetIsPositive ==
  \A x \in DOMAIN projects : projects[x].budget > 0

\* C21: in the committed rows no Project has two accepted Proposals.
C21_AtMostOneAccepted ==
  \A p \in DOMAIN proposals, q \in DOMAIN proposals :
    (/\ p # q
     /\ proposals[p].project_id = proposals[q].project_id
     /\ proposals[p].status = "accepted")
    => proposals[q].status # "accepted"

\* Two accepts of different Proposals of one Project are running: one has
\* written its cascade and commits next, the other waits to write its own,
\* and the committed rows show a third Proposal of the Project accepted.
C21_Witness ==
  \E r \in Reqs, o \in Reqs :
    /\ pc[r] = "us_commit" /\ req[r].st = "accepted" /\ txn.owner = r
    /\ pc[o] = "us_bulk"
    /\ req[o].prj = req[r].prj
    /\ req[o].pid # req[r].pid
    /\ \E q \in DOMAIN proposals \ {req[r].pid, req[o].pid} :
         /\ proposals[q].project_id = req[r].prj
         /\ proposals[q].status = "accepted"

\* C22: every committed Proposal row references a Project row that exists.
C22_NoOrphanProposals ==
  \A p \in DOMAIN proposals : proposals[p].project_id \in DOMAIN projects

\* C23: no step of a setStatus(P, accepted) on a Proposal of Project X adds,
\* removes or changes a Proposal of another Project, or removes or changes
\* the status of a Project other than X.
C23_AcceptLeavesOtherProjects ==
  [][\A r \in Reqs :
       (/\ req[r].op = "update_proposal_status"
        /\ req[r].st = "accepted"
        /\ pc'[r] # pc[r])
       => /\ DOMAIN proposals' = DOMAIN proposals
          /\ \A q \in DOMAIN proposals :
               proposals[q].project_id # req[r].prj => proposals'[q] = proposals[q]
          /\ DOMAIN projects' = DOMAIN projects
          /\ \A x \in DOMAIN projects \ {req[r].prj} :
               projects'[x].status = projects[x].status]_vars

\* An accept was just answered 200 (no Proposal is rejected, so the last
\* status update was not a reject): its target is accepted, its Project
\* in_progress, and the other Project is still open with a pending Proposal.
C23_Witness ==
  /\ resp = [op |-> "update_proposal_status", msg |-> "200 ok"]
  /\ \A q \in DOMAIN proposals : proposals[q].status # "rejected"
  /\ \E p \in DOMAIN proposals, o \in DOMAIN proposals :
       /\ proposals[p].status = "accepted"
       /\ proposals[o].status = "pending"
       /\ proposals[p].project_id \in DOMAIN projects
       /\ proposals[o].project_id \in DOMAIN projects
       /\ proposals[o].project_id # proposals[p].project_id
       /\ projects[proposals[p].project_id].status = "in_progress"
       /\ projects[proposals[o].project_id].status = "open"
====
